---- MODULE Spec2Model ----
(***************************************************************************)
(* Model of implementors/core/ops/trait.Place.js, a rustdoc-generated      *)
(* implementors script.  The script is an immediately invoked function:    *)
(*                                                                         *)
(*   1  (function() {var implementors = {};                                *)
(*   2  implementors["biscuit"] = [ ...five strings... ];                  *)
(*   4      if (window.register_implementors) {                            *)
(*   5          window.register_implementors(implementors);                *)
(*   6      } else {                                                       *)
(*   7          window.pending_implementors = implementors;                *)
(*   8      }                                                              *)
(*  10  })()                                                               *)
(*                                                                         *)
(* The page is modelled as the global object `window`, a number of script  *)
(* tags of this form (tag ThisScript is trait.Place.js itself), and an     *)
(* external party that assigns window.register_implementors.  JavaScript   *)
(* runs each script to completion, so no other tag and no external         *)
(* assignment is interleaved with a running script.                        *)
(***************************************************************************)
EXTENDS Integers, Sequences, FiniteSets, TLC

VARIABLES
  window,        \* the global object: property name -> JavaScript value
  pc,            \* per script tag: position in the script
  implementors,  \* per script tag: the function-local variable `implementors`
  calls,         \* invocations received by the hook, in order
  stashes        \* writes made to window.pending_implementors, in order

vars == <<window, pc, implementors, calls, stashes>>

\* Number of further script tags of the same form on the page.
NumOthers == 2

ThisScript == 1

Tags == 1..(1 + NumOthers)

GlobalNames == {"register_implementors", "pending_implementors", "implementors"}

(***************************************************************************)
(* JavaScript values.                                                      *)
(***************************************************************************)
Undefined == [type |-> "undefined", props |-> <<>>, throws |-> FALSE]

Null == [type |-> "null", props |-> <<>>, throws |-> FALSE]

\* An object: its own properties as <<key, value>> pairs in insertion order.
Obj(props) == [type |-> "object", props |-> props, throws |-> FALSE]

\* A function value; `throws` tells whether an invocation raises.
Fn(throws) == [type |-> "function", props |-> <<>>, throws |-> throws]

EmptyObject == Obj(<<>>)

\* The values window.register_implementors may hold when a script runs.
HookForms == {Undefined, Null, EmptyObject, Fn(FALSE), Fn(TRUE)}

(***************************************************************************)
(* The array literal of line 2, element by element.                        *)
(***************************************************************************)
ImplIntermediateBox ==
  "impl&lt;T&gt; <a class='trait' href='https://doc.rust-lang.org/nightly/core/ops/trait.Place.html' title='core::ops::Place'>Place</a>&lt;T&gt; for <a class='struct' href='https://doc.rust-lang.org/nightly/alloc/boxed/struct.IntermediateBox.html' title='alloc::boxed::IntermediateBox'>IntermediateBox</a>&lt;T&gt;"

ImplBinaryHeapPlace ==
  "impl&lt;'a, T&gt; <a class='trait' href='https://doc.rust-lang.org/nightly/core/ops/trait.Place.html' title='core::ops::Place'>Place</a>&lt;T&gt; for <a class='struct' href='https://doc.rust-lang.org/nightly/collections/binary_heap/struct.BinaryHeapPlace.html' title='collections::binary_heap::BinaryHeapPlace'>BinaryHeapPlace</a>&lt;'a, T&gt; <span class='where fmt-newline'>where T: <a class='trait' href='https://doc.rust-lang.org/nightly/core/clone/trait.Clone.html' title='core::clone::Clone'>Clone</a> + <a class='trait' href='https://doc.rust-lang.org/nightly/core/cmp/trait.Ord.html' title='core::cmp::Ord'>Ord</a></span>"

ImplFrontPlace ==
  "impl&lt;'a, T&gt; <a class='trait' href='https://doc.rust-lang.org/nightly/core/ops/trait.Place.html' title='core::ops::Place'>Place</a>&lt;T&gt; for <a class='struct' href='https://doc.rust-lang.org/nightly/collections/linked_list/struct.FrontPlace.html' title='collections::linked_list::FrontPlace'>FrontPlace</a>&lt;'a, T&gt;"

ImplBackPlace ==
  "impl&lt;'a, T&gt; <a class='trait' href='https://doc.rust-lang.org/nightly/core/ops/trait.Place.html' title='core::ops::Place'>Place</a>&lt;T&gt; for <a class='struct' href='https://doc.rust-lang.org/nightly/collections/linked_list/struct.BackPlace.html' title='collections::linked_list::BackPlace'>BackPlace</a>&lt;'a, T&gt;"

ImplPlaceBack ==
  "impl&lt;'a, T&gt; <a class='trait' href='https://doc.rust-lang.org/nightly/core/ops/trait.Place.html' title='core::ops::Place'>Place</a>&lt;T&gt; for <a class='struct' href='https://doc.rust-lang.org/nightly/collections/vec/struct.PlaceBack.html' title='collections::vec::PlaceBack'>PlaceBack</a>&lt;'a, T&gt;"

\* Variant: an array literal that lost its last element.
BiscuitImplementorsShort ==
  <<ImplIntermediateBox, ImplBinaryHeapPlace, ImplFrontPlace, ImplBackPlace>>

BiscuitImplementors ==
  <<ImplIntermediateBox, ImplBinaryHeapPlace, ImplFrontPlace, ImplBackPlace,
    ImplPlaceBack>>

BiscuitKey == "biscuit"

\* Stand-in for the array literal of another script of the same form.
OtherImplementors(s) == <<ToString(s)>>

KeyOf(s) == BiscuitKey

ListOf(s) == IF s = ThisScript THEN BiscuitImplementors ELSE OtherImplementors(s)

(***************************************************************************)
(* Language semantics used by the script.                                  *)
(***************************************************************************)
KeyIndex(props, key) ==
  IF \E i \in 1..Len(props) : props[i][1] = key
  THEN CHOOSE i \in 1..Len(props) : props[i][1] = key
  ELSE 0

\* obj[key] = val
SetProperty(obj, key, val) ==
  LET i == KeyIndex(obj.props, key)
  IN  IF i = 0
      THEN Obj(Append(obj.props, <<key, val>>))
      ELSE Obj([obj.props EXCEPT ![i] = <<key, val>>])

\* Variant: the guard written as `!== undefined`.
TruthyNotUndefined(v) == v.type # "undefined"

\* ToBoolean, as applied by `if (...)`.
Truthy(v) == v.type \in {"object", "function"}

Callable(v) == v.type = "function"

NoScriptRunning == \A t \in Tags : pc[t] \in {"ready", "done", "threw"}

(***************************************************************************)
(* The script, statement by statement.                                     *)
(***************************************************************************)
Init ==
  /\ window = [n \in GlobalNames |-> Undefined]
  /\ pc = [s \in Tags |-> "ready"]
  /\ implementors = [s \in Tags |-> Undefined]
  /\ calls = <<>>
  /\ stashes = <<>>

\* Variant: `implementors` declared outside the enclosing function.
CreateGlobal(s) ==
  /\ pc[s] = "ready"
  /\ NoScriptRunning
  /\ implementors' = [implementors EXCEPT ![s] = EmptyObject]
  /\ window' = [window EXCEPT !["implementors"] = EmptyObject]
  /\ pc' = [pc EXCEPT ![s] = "built"]
  /\ UNCHANGED <<calls, stashes>>

\* Line 1: var implementors = {};
CreateLocal(s) ==
  /\ pc[s] = "ready"
  /\ NoScriptRunning
  /\ implementors' = [implementors EXCEPT ![s] = EmptyObject]
  /\ pc' = [pc EXCEPT ![s] = "built"]
  /\ UNCHANGED <<window, calls, stashes>>

Reverse(seq) == [i \in 1..Len(seq) |-> seq[Len(seq) + 1 - i]]

\* Variant: the array is stored in another order.
AssignEntryReordered(s) ==
  /\ pc[s] = "built"
  /\ implementors' = [implementors EXCEPT ![s] = SetProperty(@, KeyOf(s), Reverse(ListOf(s)))]
  /\ pc' = [pc EXCEPT ![s] = "filled"]
  /\ UNCHANGED <<window, calls, stashes>>

\* Line 2: implementors["biscuit"] = [...];
AssignEntry(s) ==
  /\ pc[s] = "built"
  /\ implementors' = [implementors EXCEPT ![s] = SetProperty(@, KeyOf(s), ListOf(s))]
  /\ pc' = [pc EXCEPT ![s] = "filled"]
  /\ UNCHANGED <<window, calls, stashes>>

\* Variant: the mapping is emptied once the hook has been called.
CallHookThenClear(s) ==
  LET hook == window["register_implementors"]
  IN  /\ IF Callable(hook)
         THEN /\ calls' = Append(calls, [by |-> s, args |-> <<implementors[s]>>])
              /\ pc' = [pc EXCEPT ![s] = IF hook.throws THEN "threw" ELSE "done"]
         ELSE /\ calls' = calls
              /\ pc' = [pc EXCEPT ![s] = "threw"]
      /\ implementors' = [implementors EXCEPT ![s] = EmptyObject]
      /\ UNCHANGED <<window, stashes>>

\* Line 5: window.register_implementors(implementors);
CallHook(s) ==
  LET hook == window["register_implementors"]
  IN  /\ IF Callable(hook)
         THEN /\ calls' = Append(calls, [by |-> s, args |-> <<implementors[s]>>])
              /\ pc' = [pc EXCEPT ![s] = IF hook.throws THEN "threw" ELSE "done"]
         ELSE /\ calls' = calls
              /\ pc' = [pc EXCEPT ![s] = "threw"]
      /\ UNCHANGED <<window, implementors, stashes>>

\* Variant: window.pending_implementors = window.pending_implementors || implementors;
StashIfEmpty(s) ==
  LET old == window["pending_implementors"]
      new == IF old.type = "object" THEN old ELSE implementors[s]
  IN  /\ window' = [window EXCEPT !["pending_implementors"] = new]
      /\ stashes' = Append(stashes, [by |-> s, value |-> new])
      /\ pc' = [pc EXCEPT ![s] = "done"]
      /\ UNCHANGED <<implementors, calls>>

\* Line 7: window.pending_implementors = implementors;
Stash(s) ==
  /\ window' = [window EXCEPT !["pending_implementors"] = implementors[s]]
  /\ stashes' = Append(stashes, [by |-> s, value |-> implementors[s]])
  /\ pc' = [pc EXCEPT ![s] = "done"]
  /\ UNCHANGED <<implementors, calls>>

\* Variant: the conditional placed before the assignment of line 2.
DispatchReadyEarly(s) == pc[s] \in {"built", "filled"}

\* The conditional is reached after the statements of lines 1 and 2.
DispatchReady(s) == pc[s] = "filled"

\* Variant: the two branches swapped.
DispatchNegated(s) ==
  /\ pc[s] = "filled"
  /\ IF ~Truthy(window["register_implementors"]) THEN CallHook(s) ELSE Stash(s)

\* Lines 4-8: if (window.register_implementors) {...} else {...}
Dispatch(s) ==
  /\ DispatchReady(s)
  /\ IF Truthy(window["register_implementors"]) THEN CallHook(s) ELSE Stash(s)

\* Another script assigns window.register_implementors.
InstallHook(v) ==
  /\ NoScriptRunning
  /\ window["register_implementors"] # v
  /\ window' = [window EXCEPT !["register_implementors"] = v]
  /\ UNCHANGED <<pc, implementors, calls, stashes>>

Next ==
  \/ \E s \in Tags : CreateLocal(s)
  \/ \E s \in Tags : AssignEntry(s)
  \/ \E s \in Tags : Dispatch(s)
  \/ \E v \in HookForms : InstallHook(v)

Spec == Init /\ [][Next]_vars


(***************************************************************************)
(* Vocabulary of the properties.                                           *)
(***************************************************************************)
Hook == window["register_implementors"]

Pending == window["pending_implementors"]

HookInstalled == Hook.type = "function"

HookAbsent == Hook.type \in {"undefined", "null"}

\* s executes its conditional (lines 4-8) in this step.
Dispatches(s) == pc[s] = "filled" /\ pc'[s] # "filled"

\* s executes any of its statements in this step.
Steps(s) == pc'[s] # pc[s]

CalledBy(s) == {i \in 1..Len(calls) : calls[i].by = s}

StashedBy(s) == {i \in 1..Len(stashes) : stashes[i].by = s}

\* Every mapping s has handed over, to the hook or to the pending slot.
HandedOver(s) ==
  {calls[i].args[1] : i \in CalledBy(s)} \cup {stashes[i].value : i \in StashedBy(s)}

Finished(s) == pc[s] \in {"done", "threw"}

C2_MappingNotLost ==
  (StashedBy(ThisScript) # {} /\ ~HookInstalled) => Pending = implementors[ThisScript]

\* C3: the mapping this script hands over has exactly one key, "biscuit",
\* no key twice, and the key's value is a non-empty sequence of five strings.
C3_Shape ==
  \A v \in HandedOver(ThisScript) :
    /\ v.type = "object"
    /\ Len(v.props) = 1
    /\ \A i, j \in 1..Len(v.props) : v.props[i][1] = v.props[j][1] => i = j
    /\ v.props[1][1] = "biscuit"
    /\ Len(v.props[1][2]) = 5
    /\ \A k \in 1..Len(v.props[1][2]) : v.props[1][2][k] \in STRING

C3_Witness ==
  /\ StashedBy(ThisScript) # {}
  /\ Pending \in HandedOver(ThisScript)

\* C4 as stated: no execution ends in an error, whatever the hook holds.
C4_NoErrorOutcome == \A s \in Tags : pc[s] # "threw"

\* C4 amended: an execution ends in an error exactly when the hook slot
\* holds a truthy value that cannot be called or a function that throws;
\* with the hook absent or a function that returns, it completes.
C4_ErrorOnlyFromHook ==
  [][\A s \in Tags : Dispatches(s) =>
       /\ pc'[s] \in {"done", "threw"}
       /\ pc'[s] = "threw" <=> \/ Hook.type = "object"
                               \/ Hook.type = "function" /\ Hook.throws]_vars

C4_Witness ==
  \E s, t, u \in Tags :
    /\ pc[s] = "done" /\ StashedBy(s) # {}
    /\ pc[t] = "done" /\ CalledBy(t) # {}
    /\ pc[u] = "threw"

\* C5: once the entry has been assigned no statement of the script changes
\* the mapping, and what has been handed over equals the mapping as built.
C5_Immutable ==
  [][\A s \in Tags :
       /\ pc[s] \in {"filled", "done", "threw"} => implementors'[s] = implementors[s]
       /\ \A v \in HandedOver(s)' : v = implementors'[s]]_vars

C5_Witness ==
  /\ pc[ThisScript] = "done"
  /\ CalledBy(ThisScript) # {}
  /\ \E t \in Tags \ {ThisScript} : pc[t] = "done" /\ StashedBy(t) # {}
  /\ HookAbsent

\* C6: the sequence under "biscuit" is handed over in file order:
\* IntermediateBox, BinaryHeapPlace, FrontPlace, BackPlace, PlaceBack.
C6_FileOrder ==
  \A v \in HandedOver(ThisScript) :
    \E i \in 1..Len(v.props) :
      v.props[i] = <<"biscuit",
                     <<ImplIntermediateBox, ImplBinaryHeapPlace, ImplFrontPlace,
                       ImplBackPlace, ImplPlaceBack>> >>

C6_Witness ==
  \E i \in CalledBy(ThisScript) : Len(calls[i].args[1].props[1][2]) = 5

\* C7: the pending slot holds a single mapping, that of the last script
\* that ran with the hook absent; earlier values are replaced.
C7_LastStashWins ==
  IF stashes = <<>>
  THEN Pending = Undefined
  ELSE Pending = implementors[stashes[Len(stashes)].by]

C7_Witness ==
  /\ Len(stashes) >= 2
  /\ stashes[1].by = ThisScript
  /\ Pending # stashes[1].value
  /\ Pending = stashes[Len(stashes)].value

\* C8: a statement of the script changes no global but
\* window.pending_implementors, and that only in the deferral branch; no
\* global named implementors comes to exist.
C8_Frame ==
  [][\A s \in Tags : Steps(s) =>
       /\ window'["register_implementors"] = window["register_implementors"]
       /\ window'["implementors"] = Undefined
       /\ HookInstalled => window'["pending_implementors"] = window["pending_implementors"]
       /\ window' # window => Dispatches(s) /\ HookAbsent]_vars

C8_Witness ==
  /\ CalledBy(ThisScript) # {}
  /\ Len(stashes) = 1
  /\ Pending = stashes[1].value
  /\ HookInstalled

\* C9: the entry is assigned before the mapping is handed over: a script
\* hands over only after line 2, and what it hands over holds the entry.
C9_FilledBeforeHandOver ==
  [][\A s \in Tags :
       (Len(calls') > Len(calls) \/ Len(stashes') > Len(stashes)) /\ Steps(s) =>
         /\ pc[s] = "filled"
         /\ \A v \in HandedOver(s)' :
              \E i \in 1..Len(v.props) : v.props[i] = <<KeyOf(s), ListOf(s)>>]_vars

C9_Witness ==
  /\ StashedBy(ThisScript) # {}
  /\ \E t \in Tags \ {ThisScript} : CalledBy(t) # {} /\ pc[t] = "threw"

====
